---- MODULE Spec2Model ----
(***************************************************************************)
(* lxc-stat: per-container resource usage read from the cgroup filesystem. *)
(*                                                                         *)
(* Spec     the program: Containers() is constructed, print_stats(args)    *)
(*          runs, and the cgroup filesystem changes underneath it.         *)
(* SpecApi  the Container class used as a library: a caller invokes the    *)
(*          accessors of one record in any order, catching exceptions,     *)
(*          while the cgroup filesystem changes.                           *)
(*                                                                         *)
(* Floats with two decimals are held as integers in hundredths: 0.70 s is  *)
(* 70, 33.33 % is 3333, 2.00 MB is 200.                                    *)
(***************************************************************************)
EXTENDS Integers, Sequences, FiniteSets

VARIABLES
    fs,          \* the cgroup tree: name -> [dir, memory, cpu, procs]
    pc,          \* position of the program
    sort,        \* print_stats' local sort: args.sort once it is read
    containers,  \* Containers.containers: names in listing order
    cache,       \* Container._cache of each record: a dict key -> value
    reads,       \* history: how often each backing file's contents were read
    first,       \* history: the total of the call that computed each percent
    cpu_usage,   \* print_stats' local cpu_usage (hundredths of a second)
    order,       \* the list sorted() returned
    i,           \* index in order of the row being printed
    out,         \* lines printed to standard output
    error,       \* the uncaught exception that ended the run, or the last one raised to the caller
    discovered,  \* history: the directories listed by Containers.__init__
    envSteps,    \* filesystem changes so far
    calls,       \* SpecApi: accessor calls so far
    ret          \* SpecApi: the last call, and what it returned

vars == <<fs, pc, sort, containers, cache, reads, first, cpu_usage, order, i,
          out, error, discovered, envSteps, calls, ret>>

----------------------------------------------------------------------------
(* Bounds *)

MaxContainers == 2
MaxEnvSteps == 1
MaxCalls == 3

\* Container names as sequences of code points: "a", "ab", "b".
Names == {<<1>>, <<1, 2>>, <<2>>}

MemValues == {131072, 2097152}
CpuValues == {0, 704000000, 1396000000}
PidValues == {1, 7}

\* --sort values: the five the code names, and one it does not.
SortValues == {"name", "cpu", "memory", "percent", "procs", "bogus"}

\* The totals a caller of get_percent passes (0 is the default, total=0.0).
Totals == {0, 140, 210}

----------------------------------------------------------------------------
(* The cgroup filesystem *)

Metrics == {"memory", "cpu", "procs"}

File(v) == [kind |-> "int", val |-> v]
Missing == [kind |-> "missing", val |-> 0]
Garbage == [kind |-> "garbage", val |-> 0]

Absent == [dir |-> FALSE, memory |-> Missing, cpu |-> Missing, procs |-> Missing]

Present(m, c, p) == [dir |-> TRUE, memory |-> File(m), cpu |-> File(c), procs |-> File(p)]

\* What a container holds when the program starts: one that idles on much
\* memory, one that runs many processes on little.
Profiles ==
    { Present(2097152, 0, 1),
      Present(131072, 704000000, 7) }

\* A container just created: hardly any usage yet.
NewContainer == Present(131072, 0, 1)

ValuesOf(metric) ==
    CASE metric = "memory" -> MemValues
      [] metric = "cpu"    -> CpuValues
      [] metric = "procs"  -> PidValues

\* What a write leaves in a controller file: a number, or text that is none.
Contents(metric) == {File(v) : v \in ValuesOf(metric)} \cup {Garbage}

----------------------------------------------------------------------------
(* Python built-ins *)

\* round(x, 2) in hundredths, for x = n / (100 * d): the integer nearest to
\* n / d.  An exact tie goes to the even neighbour when x is a binary fraction
\* (bytes / 2^20 always is); otherwise the double nearest x decides, and none
\* of the file contents and totals used here gives such a tie.
Round2(n, d) ==
    LET q == n \div d
        r == n % d
    IN  IF 2 * r < d THEN q
        ELSE IF 2 * r > d THEN q + 1
        ELSE IF q % 2 = 0 THEN q ELSE q + 1

\* str < str: lexicographic by code point, a proper prefix first.
LexLess(a, b) ==
    \/ /\ Len(a) < Len(b)
       /\ \A k \in 1..Len(a) : a[k] = b[k]
    \/ \E k \in 1..Len(a) :
          /\ k <= Len(b)
          /\ a[k] < b[k]
          /\ \A j \in 1..(k - 1) : a[j] = b[j]

Reversed(s) == [k \in 1..Len(s) |-> s[Len(s) + 1 - k]]

\* dict[key] = value
Put(d, key, value) ==
    [k \in DOMAIN d \cup {key} |-> IF k = key THEN value ELSE d[k]]

\* {}
EmptyDict == [k \in {} |-> 0]

KeyLess(method, a, b) ==
    IF method = "name" THEN LexLess(a, b) ELSE a < b

\* One insertion of a stable ascending sort: x goes after every element that
\* is not greater than it.
Insert(s, x, method) ==
    LET n == Cardinality({j \in 1..Len(s) : ~KeyLess(method, x.key, s[j].key)})
    IN  SubSeq(s, 1, n) \o <<x>> \o SubSeq(s, n + 1, Len(s))

RECURSIVE SortAsc(_, _)
SortAsc(s, method) ==
    IF s = <<>> THEN <<>>
    ELSE Insert(SortAsc(SubSeq(s, 1, Len(s) - 1), method), s[Len(s)], method)

\* sorted(items, key=..., reverse=...) over the keys already computed: the list
\* is sorted ascending and stably; with reverse it is reversed before and after,
\* so that equal keys keep their original order in both directions.
PySortedNoPreReverse(items, keys, method, reverse) ==
    LET pairs == [k \in 1..Len(items) |-> [item |-> items[k], key |-> keys[k]]]
        done  == SortAsc(pairs, method)
        res   == IF reverse THEN Reversed(done) ELSE done
    IN  [k \in 1..Len(items) |-> res[k].item]

PySorted(items, keys, method, reverse) ==
    LET pairs == [k \in 1..Len(items) |-> [item |-> items[k], key |-> keys[k]]]
        start == IF reverse THEN Reversed(pairs) ELSE pairs
        done  == SortAsc(start, method)
        res   == IF reverse THEN Reversed(done) ELSE done
    IN  [k \in 1..Len(items) |-> res[k].item]

----------------------------------------------------------------------------
(* class Container.  An accessor takes and returns a heap                  *)
(*   [cache, reads, first, exc, ret]:                                      *)
(* the caches of all records, the history counters, the exception being    *)
(* raised (if any) and the value returned.  An accessor entered with an    *)
(* exception pending does nothing: the exception is propagating.           *)

NoError == [type |-> "none", file |-> "none", name |-> <<>>]

Raise(h, type, file, c) ==
    [h EXCEPT !.exc = [type |-> type, file |-> file, name |-> c]]

Heap == [cache |-> cache, reads |-> reads, first |-> first, exc |-> NoError, ret |-> 0]

\* The conversion each accessor applies to the integer it parsed.
Convert(metric, n) ==
    CASE metric = "memory" -> Round2(100 * n, 1048576)
      [] metric = "cpu"    -> Round2(n, 10000000)
      [] metric = "procs"  -> n

\* The body shared by get_memory, get_cpu and get_procs:
\*   if key not in self._cache:
\*       with open(path) as fh: self._cache[key] = convert(int(fh.read().strip()))
\*   return self._cache.get(key)
FetchUncached(h, c, metric) ==
    LET f == fs[c][metric]
    IN  IF h.exc.type # "none" THEN h
        ELSE IF f.kind = "missing" THEN Raise(h, "FileNotFoundError", metric, c)
        ELSE IF f.kind = "garbage"
             THEN Raise([h EXCEPT !.reads[c][metric] = @ + 1], "ValueError", metric, c)
        ELSE [h EXCEPT !.reads[c][metric] = @ + 1,
                       !.cache[c] = Put(@, metric, Convert(metric, f.val)),
                       !.ret = Convert(metric, f.val)]

FetchNoCache(h, c, metric) == FetchUncached(h, c, metric)

Fetch(h, c, metric) ==
    IF h.exc.type # "none" THEN h
    ELSE IF metric \in DOMAIN h.cache[c] THEN [h EXCEPT !.ret = h.cache[c][metric]]
    ELSE FetchUncached(h, c, metric)

get_name(h, c) == IF h.exc.type # "none" THEN h ELSE [h EXCEPT !.ret = c]

get_memory(h, c) == Fetch(h, c, "memory")

get_cpu(h, c) == Fetch(h, c, "cpu")

get_procs(h, c) == Fetch(h, c, "procs")

\* round(self.get_cpu * 100 / total, 2), computed whatever the cache holds.
ComputePercent(h, c, total) ==
    LET g == get_cpu(h, c)
    IN  IF g.exc.type # "none" THEN g
        ELSE IF total = 0 THEN Raise(g, "ZeroDivisionError", "none", c)
        ELSE [g EXCEPT !.cache[c] = Put(@, "percent", Round2(g.ret * 10000, total)),
                       !.first = IF c \in DOMAIN @ THEN @ ELSE Put(@, c, total),
                       !.ret = Round2(g.ret * 10000, total)]

get_percent_recompute(h, c, total) ==
    IF h.exc.type # "none" THEN h ELSE ComputePercent(h, c, total)

get_percent(h, c, total) ==
    IF h.exc.type # "none" THEN h
    ELSE IF "percent" \in DOMAIN h.cache[c] THEN [h EXCEPT !.ret = h.cache[c].percent]
    ELSE ComputePercent(h, c, total)

----------------------------------------------------------------------------
(* class Containers *)

ValidMethods == {"name", "cpu", "memory", "percent", "procs"}

\* getattr(c, 'get_<method>'): a property is evaluated, the method get_percent
\* is returned bound and uncalled (the key is then the method object itself).
getattr(h, c, method) ==
    CASE method = "name"    -> get_name(h, c)
      [] method = "cpu"     -> get_cpu(h, c)
      [] method = "memory"  -> get_memory(h, c)
      [] method = "procs"   -> get_procs(h, c)
      [] method = "percent" -> IF h.exc.type # "none" THEN h ELSE [h EXCEPT !.ret = <<"bound method", c>>]

\* sort_by(method)(c): the key function print_stats hands to sorted().
sort_by_fallback_memory(h, c, method) ==
    IF method \in ValidMethods THEN getattr(h, c, method) ELSE get_memory(h, c)

sort_by(h, c, method) ==
    IF method \in ValidMethods THEN getattr(h, c, method) ELSE get_cpu(h, c)

\* The column an unrecognized method sorts by.
KeyColumn(method) == IF method \in ValidMethods THEN method ELSE "cpu"

\* Whether two keys of this column can be compared with <: bound methods cannot.
Comparable(method) == KeyColumn(method) # "percent"

reverse_always(method) == TRUE

\* reverse=(sort != 'name')
reverse(method) == method # "name"

\* sum(map(lambda c: c.get_cpu, self.containers)) from index k on, h.ret the
\* sum so far.
RECURSIVE SumCpu(_, _)
SumCpu(h, k) ==
    IF k > Len(containers) \/ h.exc.type # "none" THEN h
    ELSE LET g == get_cpu(h, containers[k])
         IN  SumCpu([g EXCEPT !.ret = h.ret + g.ret], k + 1)

\* The keys sorted() computes, one call of the key function per element in
\* list order, before it compares any: [h, keys].
RECURSIVE Keys(_, _, _, _)
Keys(h, k, keys, method) ==
    IF k > Len(containers) \/ h.exc.type # "none" THEN [h |-> h, keys |-> keys]
    ELSE LET g == sort_by(h, containers[k], method)
         IN  Keys(g, k + 1, Append(keys, g.ret), method)

\* template.format(container, container.get_percent(cpu_usage)): the percent
\* argument is evaluated first, then the fields from left to right.
FormatRow(h, c, total) ==
    LET hp == get_percent(h, c, total)
        hn == get_name(hp, c)
        hm == get_memory(hn, c)
        hc == get_cpu(hm, c)
        hq == get_procs(hc, c)
    IN  IF hq.exc.type # "none" THEN hq
        ELSE [hq EXCEPT !.ret = [name |-> hn.ret, memory |-> hm.ret, cpu |-> hc.ret,
                                 percent |-> hp.ret, procs |-> hq.ret]]

SeparatorWidth == 62

Header == [line |-> "header"]
Separator == [line |-> "separator", dashes |-> SeparatorWidth]
Row(r) == [line |-> "row", row |-> r]

\* Every listing order of a set of names.
Listings(S) ==
    {s \in [1..Cardinality(S) -> S] : \A a, b \in 1..Cardinality(S) : a # b => s[a] # s[b]}

\* The heap's effect on the state; an exception ends the run.
Commit(h) ==
    /\ cache' = h.cache
    /\ reads' = h.reads
    /\ first' = h.first
    /\ error' = h.exc

\* Containers.__init__: one Container per directory under devices/lxc, in
\* the order os.listdir gives them.
Containers_init ==
    /\ pc = "start"
    /\ \E listing \in Listings({n \in Names : fs[n].dir}) :
          /\ containers' = listing
          /\ discovered' = {n \in Names : fs[n].dir}
    /\ cache' = [n \in Names |-> EmptyDict]
    /\ pc' = "cpu_usage"
    /\ UNCHANGED <<fs, sort, reads, first, cpu_usage, order, i, out, error, envSteps, calls, ret>>

\* cpu_usage = self.cpu_usage()
cpu_usage_lazy ==
    /\ pc = "cpu_usage"
    /\ cpu_usage' = 0
    /\ pc' = "print_header"
    /\ UNCHANGED <<fs, sort, containers, cache, reads, first, order, i, out, error,
                   discovered, envSteps, calls, ret>>

CpuUsage ==
    /\ pc = "cpu_usage"
    /\ LET h == SumCpu(Heap, 1)
       IN  /\ Commit(h)
           /\ cpu_usage' = IF h.exc.type = "none" THEN h.ret ELSE cpu_usage
           /\ pc' = IF h.exc.type = "none" THEN "print_header" ELSE "failed"
    /\ UNCHANGED <<fs, sort, containers, order, i, out, discovered, envSteps, calls, ret>>

\* The header line and the separator line.
PrintHeader ==
    /\ pc = "print_header"
    /\ out' = out \o <<Header, Separator>>
    /\ pc' = "sorted"
    /\ UNCHANGED <<fs, sort, containers, cache, reads, first, cpu_usage, order, i, error,
                   discovered, envSteps, calls, ret>>

\* sort = getattr(args, 'sort'), the command line's --sort value, read here for
\* the first time; then
\* sorted(self.containers, key=sort_by(sort), reverse=(sort != 'name')): the
\* keys are computed, then compared; comparing two bound methods raises
\* TypeError, and a list of fewer than two elements compares nothing.
SortedRelisting ==
    /\ pc = "sorted"
    /\ \E method \in SortValues, listing \in Listings({n \in Names : fs[n].dir}) :
          /\ sort' = method
          /\ order' = listing
          /\ pc' = IF Len(listing) = 0 THEN "done" ELSE "rows"
    /\ i' = 1
    /\ UNCHANGED <<fs, containers, cache, reads, first, cpu_usage, out, error,
                   discovered, envSteps, calls, ret>>

Sorted ==
    /\ pc = "sorted"
    /\ \E method \in SortValues :
          LET r == Keys(Heap, 1, <<>>, method)
              h == IF r.h.exc.type = "none" /\ ~Comparable(method) /\ Len(containers) >= 2
                   THEN Raise(r.h, "TypeError", "none", containers[1])
                   ELSE r.h
          IN  /\ sort' = method
              /\ Commit(h)
              /\ order' = IF h.exc.type = "none"
                          THEN PySorted(containers, r.keys, KeyColumn(method), reverse(method))
                          ELSE order
              /\ pc' = IF h.exc.type # "none" THEN "failed"
                       ELSE IF Len(containers) = 0 THEN "done" ELSE "rows"
    /\ i' = 1
    /\ UNCHANGED <<fs, containers, cpu_usage, out, discovered, envSteps, calls, ret>>

\* One turn of the for loop: format the row, print it.
PrintRowSkipping ==
    /\ pc = "rows"
    /\ LET h == FormatRow(Heap, order[i], cpu_usage)
       IN  /\ cache' = h.cache
           /\ reads' = h.reads
           /\ first' = h.first
           /\ error' = error
           /\ out' = IF h.exc.type = "none" THEN Append(out, Row(h.ret)) ELSE out
    /\ pc' = IF i = Len(order) THEN "done" ELSE "rows"
    /\ i' = i + 1
    /\ UNCHANGED <<fs, sort, containers, cpu_usage, order, discovered, envSteps, calls, ret>>

PrintRow ==
    /\ pc = "rows"
    /\ LET h == FormatRow(Heap, order[i], cpu_usage)
       IN  /\ Commit(h)
           /\ out' = IF h.exc.type = "none" THEN Append(out, Row(h.ret)) ELSE out
           /\ pc' = IF h.exc.type # "none" THEN "failed"
                    ELSE IF i = Len(order) THEN "done" ELSE "rows"
           /\ i' = IF h.exc.type = "none" THEN i + 1 ELSE i
    /\ UNCHANGED <<fs, sort, containers, cpu_usage, order, discovered, envSteps, calls, ret>>

----------------------------------------------------------------------------
(* The environment: the kernel and the container runtime change the tree.  *)

Running == pc \notin {"done", "failed"}

\* A controller file of an existing container changes its contents, to another
\* number or to text that is no number.
EnvWrite ==
    /\ Running
    /\ envSteps < MaxEnvSteps
    /\ \E n \in Names, metric \in Metrics :
          /\ fs[n].dir
          /\ \E content \in Contents(metric) \ {fs[n][metric]} :
                fs' = [fs EXCEPT ![n][metric] = content]
    /\ envSteps' = envSteps + 1
    /\ UNCHANGED <<pc, sort, containers, cache, reads, first, cpu_usage, order, i, out,
                   error, discovered, calls, ret>>

\* A container is destroyed: its directory goes, in every controller.
EnvDestroy ==
    /\ Running
    /\ envSteps < MaxEnvSteps
    /\ \E n \in Names :
          /\ fs[n].dir
          /\ fs' = [fs EXCEPT ![n] = Absent]
    /\ envSteps' = envSteps + 1
    /\ UNCHANGED <<pc, sort, containers, cache, reads, first, cpu_usage, order, i, out,
                   error, discovered, calls, ret>>

\* A container is created.
EnvCreate ==
    /\ Running
    /\ envSteps < MaxEnvSteps
    /\ \E n \in Names :
          /\ ~fs[n].dir
          /\ fs' = [fs EXCEPT ![n] = NewContainer]
    /\ envSteps' = envSteps + 1
    /\ UNCHANGED <<pc, sort, containers, cache, reads, first, cpu_usage, order, i, out,
                   error, discovered, calls, ret>>

Env == EnvWrite \/ EnvDestroy \/ EnvCreate

----------------------------------------------------------------------------
(* The caller of SpecApi: one accessor call on one record.                 *)

NoCall == [op |-> "none", name |-> <<>>, total |-> 0, value |-> 0, hit |-> FALSE, file |-> Missing]

\* The call returns h.ret, or raises h.exc to the caller, who goes on.  ret
\* keeps whether the key was cached when the call began (hit) and what the
\* backing file held then.
Call(op, c, total, key, h) ==
    /\ calls < MaxCalls
    /\ Commit(h)
    /\ ret' = [op |-> op, name |-> c, total |-> total,
               value |-> IF h.exc.type = "none" THEN h.ret ELSE 0,
               hit |-> key \in DOMAIN cache[c],
               file |-> fs[c][IF key = "percent" THEN "cpu" ELSE key]]
    /\ calls' = calls + 1
    /\ UNCHANGED <<fs, pc, sort, containers, cpu_usage, order, i, out, discovered, envSteps>>

CallGetMemory ==
    \E k \in 1..Len(containers) :
        Call("get_memory", containers[k], 0, "memory", get_memory(Heap, containers[k]))

CallGetCpu ==
    \E k \in 1..Len(containers) :
        Call("get_cpu", containers[k], 0, "cpu", get_cpu(Heap, containers[k]))

CallGetProcs ==
    \E k \in 1..Len(containers) :
        Call("get_procs", containers[k], 0, "procs", get_procs(Heap, containers[k]))

CallGetPercent ==
    \E k \in 1..Len(containers), total \in Totals :
        Call("get_percent", containers[k], total, "percent",
             get_percent(Heap, containers[k], total))

----------------------------------------------------------------------------
(* Spec: the program *)

Trees ==
    {t \in [Names -> Profiles \cup {Absent}] :
        Cardinality({n \in Names : t[n].dir}) <= MaxContainers}

Init ==
    /\ fs \in Trees
    /\ sort = "unread"
    /\ pc = "start"
    /\ containers = <<>>
    /\ cache = [n \in Names |-> EmptyDict]
    /\ reads = [n \in Names |-> [m \in Metrics |-> 0]]
    /\ first = EmptyDict
    /\ cpu_usage = 0
    /\ order = <<>>
    /\ i = 1
    /\ out = <<>>
    /\ error = NoError
    /\ discovered = {}
    /\ envSteps = 0
    /\ calls = 0
    /\ ret = NoCall

Next ==
    \/ Containers_init
    \/ CpuUsage
    \/ PrintHeader
    \/ Sorted
    \/ PrintRow
    \/ Env

Spec == Init /\ [][Next]_vars

----------------------------------------------------------------------------
(* SpecApi: one Container record and its caller *)

InitApi ==
    /\ \E c \in Names, p \in Profiles :
          /\ fs = [n \in Names |-> IF n = c THEN p ELSE Absent]
          /\ containers = <<c>>
    /\ sort = "unread"
    /\ pc = "api"
    /\ cache = [n \in Names |-> EmptyDict]
    /\ reads = [n \in Names |-> [m \in Metrics |-> 0]]
    /\ first = EmptyDict
    /\ cpu_usage = 0
    /\ order = <<>>
    /\ i = 1
    /\ out = <<>>
    /\ error = NoError
    /\ discovered = {}
    /\ envSteps = 0
    /\ calls = 0
    /\ ret = NoCall

NextApi ==
    \/ CallGetMemory
    \/ CallGetCpu
    \/ CallGetProcs
    \/ CallGetPercent
    \/ Env

SpecApi == InitApi /\ [][NextApi]_vars

----------------------------------------------------------------------------
(* What the claims speak of *)

Terminated == pc \in {"done", "failed"}

\* The rows printed so far, after the header and the separator.
RowLines ==
    IF Len(out) <= 2 THEN <<>>
    ELSE [k \in 1..(Len(out) - 2) |-> out[k + 2].row]

RowNames == [k \in 1..Len(RowLines) |-> RowLines[k].name]

RowNameSet == {RowLines[k].name : k \in 1..Len(RowLines)}

Records == {containers[k] : k \in 1..Len(containers)}

\* Position of a record in discovery order.
Discovery(c) == CHOOSE k \in 1..Len(containers) : containers[k] = c

RECURSIVE SumCached(_)
SumCached(k) ==
    IF k > Len(containers) THEN 0 ELSE cache[containers[k]].cpu + SumCached(k + 1)

\* No file of a container that exists is unreadable or holds text.
PresentFilesValid ==
    \A n \in Names : fs[n].dir => \A m \in Metrics : fs[n][m].kind = "int"

\* The full report: header, separator, one row per discovered record.
FullReport ==
    /\ Len(out) = 2 + Len(containers)
    /\ out[1] = Header
    /\ out[2] = Separator
    /\ RowNameSet = Records

----------------------------------------------------------------------------
(* C1: with --sort percent, on any container set of two or more, the       *)
(* report completes and its rows are in descending order of CPU percent.   *)
(* Stated for runs in which no file changes; the code violates it.         *)
C1_PercentSortCompletes ==
    (Terminated /\ sort = "percent" /\ Len(containers) >= 2 /\ envSteps = 0)
        => /\ pc = "done"
           /\ FullReport
           /\ \A j, k \in 1..Len(RowLines) :
                 j < k => RowLines[j].percent >= RowLines[k].percent

(* C2: when every file is present and holds an integer (all CPU usage 0    *)
(* included), the report sorted by name, cpu, memory or procs completes    *)
(* and prints the header, the separator and one row per record.  The code  *)
(* violates it.                                                            *)
C2_ReportCompletes ==
    (Terminated /\ sort \in {"name", "cpu", "memory", "procs"} /\ envSteps = 0)
        => /\ pc = "done"
           /\ FullReport

(* C3: the rows printed are in ascending lexicographic order of name for   *)
(* --sort name, and in non-increasing order of the record's cached value   *)
(* of the column for --sort cpu, memory and procs.                         *)
C3_RowsSorted ==
    \A j, k \in 1..Len(RowLines) :
        j < k =>
            /\ sort = "name" => LexLess(RowLines[j].name, RowLines[k].name)
            /\ sort \in {"cpu", "memory", "procs"} =>
                  cache[RowLines[j].name][sort] >= cache[RowLines[k].name][sort]

C3_Witness ==
    /\ pc = "done"
    /\ sort \in {"cpu", "memory", "procs"}
    /\ Len(RowLines) >= 2
    /\ RowNames # containers
    /\ cache[RowLines[1].name][sort] > cache[RowLines[2].name][sort]

(* C4: in a descending sort (cpu, memory, procs or an unrecognized key)    *)
(* two records with equal keys are printed in discovery order.             *)
C4_Stable ==
    \A j, k \in 1..Len(RowLines) :
        ( /\ j < k
          /\ sort \in {"cpu", "memory", "procs", "bogus"}
          /\ cache[RowLines[j].name][KeyColumn(sort)] = cache[RowLines[k].name][KeyColumn(sort)] )
        => Discovery(RowLines[j].name) < Discovery(RowLines[k].name)

C4_Witness ==
    /\ pc = "done"
    /\ sort \in {"cpu", "memory", "procs", "bogus"}
    /\ Len(RowLines) >= 2
    /\ cache[RowLines[1].name][KeyColumn(sort)] = cache[RowLines[2].name][KeyColumn(sort)]

\* What sorted() returns for --sort cpu in this state: the keys are the cached
\* cpu values, which cpu_usage() has populated.
ReportCpuOrder ==
    PySorted(containers, [k \in 1..Len(containers) |-> cache[containers[k]].cpu],
             "cpu", reverse("cpu"))

(* C5: with an unrecognized --sort value the sort step fails no more often *)
(* than with cpu (it reads nothing and fails never) and the rows come in   *)
(* the order --sort cpu gives: same key, same descending direction.        *)
C5_FallbackIsCpu ==
    sort \notin (ValidMethods \cup {"unread"}) =>
        /\ Len(order) = Len(containers)
        /\ order = ReportCpuOrder
        /\ RowNames = SubSeq(order, 1, Len(RowLines))
        /\ error.type \in {"none", "ZeroDivisionError", "FileNotFoundError", "ValueError"}
        /\ error.file # "cpu"

C5_Witness ==
    /\ pc = "done"
    /\ sort = "bogus"
    /\ Len(RowLines) >= 2
    /\ RowNames # containers
    /\ cache[RowLines[1].name].memory < cache[RowLines[2].name].memory

(* C6: for each record and each of memory, cpu and procs: once the metric  *)
(* is fetched no call reads its file again and its cached value never      *)
(* changes, whatever the file holds by then; the one read that fetches it  *)
(* stores the conversion of what the file held; and a call that returns,   *)
(* returns the cached value.                                               *)
C6_FetchedOnce ==
    [][ /\ \A c \in Names, m \in Metrics :
              /\ m \in DOMAIN cache[c] =>
                    /\ m \in DOMAIN cache'[c]
                    /\ cache'[c][m] = cache[c][m]
                    /\ reads'[c][m] = reads[c][m]
              /\ (m \notin DOMAIN cache[c] /\ m \in DOMAIN cache'[c]) =>
                    /\ reads'[c][m] = reads[c][m] + 1
                    /\ fs[c][m].kind = "int"
                    /\ cache'[c][m] = Convert(m, fs[c][m].val)
        /\ \A m \in Metrics :
              (calls' # calls /\ ret'.op = "get_" \o m /\ error'.type = "none") =>
                  ret'.value = cache'[ret'.name][m]
      ]_vars

\* A call served from the cache while the file held something else.
C6_Witness ==
    /\ ret.op = "get_memory"
    /\ ret.hit
    /\ error.type = "none"
    /\ reads[ret.name].memory = 1
    /\ ret.file.kind = "int"
    /\ Convert("memory", ret.file.val) # ret.value

(* C7 as stated: whatever is created or destroyed after construction, the  *)
(* report emits one row for every container discovered at construction and *)
(* none for any other.  Stated for runs that end for no other reason: no   *)
(* file of an existing container is unreadable, no TypeError, no division  *)
(* by zero.                                                                *)
C7_Original ==
    ( /\ Terminated
      /\ PresentFilesValid
      /\ error.type \notin {"TypeError", "ZeroDivisionError"} )
    => /\ RowNameSet = discovered
       /\ Len(RowLines) = Cardinality(discovered)

(* C7 amended: the records are those discovered at construction; a row is  *)
(* printed only for a discovered container and at most once for each; and  *)
(* a report that completes has printed exactly one row for every container *)
(* discovered at construction.                                             *)
C7_OnlyDiscovered ==
    /\ pc \notin {"start", "api"} => Records = discovered
    /\ RowNameSet \subseteq discovered
    /\ \A j, k \in 1..Len(RowLines) : j # k => RowLines[j].name # RowLines[k].name
    /\ pc = "done" =>
          /\ RowNameSet = discovered
          /\ Len(RowLines) = Cardinality(discovered)

\* A completed report beside a container created after construction.
C7_Witness ==
    /\ pc = "done"
    /\ Len(RowLines) >= 1
    /\ \E n \in Names : fs[n].dir /\ n \notin discovered

(* C8: get_percent computes and caches round(cpu * 100 / total, 2) on its  *)
(* first call only: the cached value is the one computed from the first    *)
(* call's total, and a later call, whatever its total, returns it.         *)
C8_PercentCached ==
    /\ \A c \in Names :
          "percent" \in DOMAIN cache[c] =>
              /\ c \in DOMAIN first
              /\ first[c] # 0
              /\ cache[c].percent = Round2(cache[c].cpu * 10000, first[c])
    /\ (ret.op = "get_percent" /\ error.type = "none") =>
          ret.value = cache[ret.name].percent

\* A later call with another total, served the first call's value.
C8_Witness ==
    /\ ret.op = "get_percent"
    /\ ret.hit
    /\ error.type = "none"
    /\ ret.total # first[ret.name]
    /\ ret.total # 0
    /\ ret.value # Round2(cache[ret.name].cpu * 10000, ret.total)

(* C9: a failed read of a memory, cpuacct or pids file ends the run in the *)
(* failure state; no row is printed for that container nor for any after   *)
(* it in sorted order; and no container is skipped: the rows printed are   *)
(* always the first i - 1 of the sorted order, all of it when done.        *)
C9_FirstErrorAborts ==
    /\ RowNames = SubSeq(order, 1, i - 1)
    /\ pc = "done" => (error = NoError /\ Len(RowLines) = Len(order))
    /\ error.file # "none" =>
          /\ pc = "failed"
          /\ error.name \notin RowNameSet
          /\ order # <<>> => (i <= Len(order) /\ order[i] = error.name)

\* A read that fails after a row has been printed.
C9_Witness ==
    /\ pc = "failed"
    /\ error.file \in {"memory", "procs"}
    /\ Len(RowLines) >= 1
    /\ Len(order) > Len(RowLines)

(* C10: once the header has been printed every record's cpu is cached and  *)
(* the total is the sum of the cached values; a failed cpuacct read leaves *)
(* no output at all; and a row shows the cpu value that was summed, with   *)
(* the percent computed from it and that total.                            *)
C10_TotalBeforeOutput ==
    /\ out # <<>> =>
          /\ \A c \in Records : "cpu" \in DOMAIN cache[c]
          /\ cpu_usage = SumCached(1)
    /\ error.file = "cpu" => out = <<>>
    /\ \A k \in 1..Len(RowLines) :
          /\ RowLines[k].cpu = cache[RowLines[k].name].cpu
          /\ RowLines[k].percent = Round2(RowLines[k].cpu * 10000, cpu_usage)

C10_Witness ==
    /\ pc = "done"
    /\ Len(RowLines) >= 2
    /\ cpu_usage > 0
    /\ \E c \in Records :
          fs[c].cpu.kind = "int" /\ Convert("cpu", fs[c].cpu.val) # cache[c].cpu

====
